---- MODULE Spec2Model ----
(***************************************************************************)
(* State-machine model of the LISU input pipeline:                         *)
(*   - the polled gamepad path  (Controllers.controllerStatus ->           *)
(*     Actuation.LisuProcesses -> normaliseValue -> fun_drishti)           *)
(*   - the raw-report path      (LISU_devices.DeviceSpec.process ->        *)
(*     LISU.callback_function / LISU.toggle_led)                           *)
(*   - the pure decoder helper to_int16                                    *)
(*   - the calibration of one sample under a session configuration         *)
(*     (Actuation.normaliseValue, and Actuation.process_input of demo/)    *)
(*   - the EventBatcher of demo/ and the threads calling it.               *)
(* Real numbers are held in fixed point: gamepad axis values in units of   *)
(* 1/FP (four decimals, the precision normaliseValue rounds to), decoded   *)
(* HID axis values as the integer numerator n of n / axis_scale.           *)
(***************************************************************************)
EXTENDS Integers, Naturals, Sequences, FiniteSets, TLC

VARIABLES
    path,               \* what this run drives: "gamepad" | "hid" | "int16" | "cal" | "batcher"
    \* ---- Actuation.py module globals (gamepad path)
    x, y, z,            \* Actuation.x / y / z
    idx,                \* Actuation.idx   : active command template
    idx2,               \* Actuation.idx2  : sensitivity
    count_state,        \* Actuation.count_state
    \* ---- Controllers instance fields
    ctl,                \* stick / trigger / button last-state fields
    keepRunning,        \* the polling loop of LisuGamepad is still running
    \* ---- DeviceSpec instance fields (raw-report path)
    mappings,           \* DeviceSpec.mappings + button_mapping (from the catalog)
    dict_state,         \* DeviceSpec.dict_state
    tuple_state,        \* DeviceSpec.tuple_state (axes and t; buttons alias dict_state)
    hid_alive,          \* the HID reader still delivers reports
    device,             \* DeviceSpec.device of the session's copy: "None" | "open"
    active_device,      \* LISU._active_device: "None" | "new_device"
    \* ---- LISU.py module globals (raw-report path)
    l_count_state,      \* LISU.count_state
    l_idx2,             \* LISU.idx2 : active command template
    l_idx3,             \* LISU.idx3 : sensitivity
    \* ---- what the caller and the transport observe
    wire,               \* datagram handed to packetHandler by the last handler call, or <<>>
    err,                \* exception raised out of the last handler call: "none" | "send" | "index"
    samples,            \* the last (up to) two samples: [cb, nz, sent, ok]
    held,               \* held[b] : button b was read as pressed by the last call (1 mode, 2 sensitivity)
    report,             \* the raw report handed to the last call of process, or <<>>
    button_called,      \* the last call of process invoked button_callback
    seen,               \* the axis channels of the reports process has received so far
    \* ---- to_int16 round trip
    b1, b2, dec, enc,
    \* ---- calibration of one sample under a session configuration
    vec_input,          \* the raw vector of the sample (VecInput / vec_input)
    cfg_deadzone,       \* the deadzone the session is configured with, in units of 1/FP
    cfg_scale_factor,   \* calibration scale_factor, in units of 1/FP
    cfg_num_axes,       \* len(dev_config["axes"])
    cal_fn,             \* the entry point that calibrated the sample, or "none"
    partial_output,     \* output of the radial stage, or <<>> when the stage did not run
    final_output,       \* the vector the calibration left
    handed,             \* the vector handed to dispatch, or <<>> when the sample is dropped
    div_zero,           \* a division of the calibration ran with divisor 0
    \* ---- EventBatcher instance fields and its callers
    events,             \* EventBatcher.events
    last_process_time,  \* EventBatcher.last_process_time
    batch_size,         \* EventBatcher.batch_size
    max_delay,          \* EventBatcher.max_delay
    lock_owner,         \* thread holding EventBatcher._lock, or 0
    now,                \* time.time(), in ticks
    pc,                 \* pc[t] : where thread t is in the batcher
    ret,                \* ret[t] : what the last call of thread t returned
    caller_state,       \* contents of the dictionary object the caller owns (InputDevice.state)
    current_is_caller,  \* OptimisedState.current is the caller's dictionary object
    current,            \* contents of OptimisedState.current
    previous,           \* OptimisedState.previous
    changed,            \* OptimisedState.changed
    given,              \* contents of the dictionary passed to the last update, when it was passed
    cache,              \* TransformationCache.cache, in insertion order
    max_size,           \* TransformationCache.max_size
    op,                 \* the last call made on the optimisation objects (name, arguments,
                        \* result, and the key a set dropped from a full cache)
    event_queue,        \* LisuLogger.event_queue (None is the shutdown signal)
    log_file,           \* the events written to LisuLogger.log_file, in order
    metrics,            \* LisuLogger.metrics
    thread_alive,       \* LisuLogger.event_thread.is_alive()
    w_pc,               \* where the event thread is in _process_events
    w_event,            \* the event the event thread holds
    cl_pc,              \* where the calling thread is in cleanup
    calls,              \* how many calls of log_event, log_error, log_warning were made
    queued,             \* the events put on the queue, in order
    got,                \* what the last call of get_metrics returned
    last_call,          \* the last step of the logger
    library,            \* InputDevice.library
    dev_running,        \* InputDevice.running: an Event ("set" / "clear") or the bool "True"
    dev_device,         \* InputDevice.device: "None", "open" or "closed"
    _last_state,        \* InputDevice._last_state (the joystick state last reported)
    mgr_running,        \* LisuManager.running.is_set()
    main_pc,            \* where the main thread is in configure_and_run
    kb_pc,              \* where the keyboard thread is in _monitor_keyboard
    key_pending,        \* the keys waiting in the console buffer, oldest first
    stop_requested,     \* ESC was pressed, or stop() has run, while a device was monitored
    available_movements,    \* the keys of MovementRegistry.available_movements
    movement_patterns,      \* MovementRegistry.movement_patterns: name -> << movements >>, or << >>
    reg_op              \* the last call made on the registry, and its outcome

vars == << path, x, y, z, idx, idx2, count_state, ctl, keepRunning,
           mappings, dict_state, tuple_state, hid_alive, device, active_device,
           l_count_state, l_idx2, l_idx3,
           wire, err, samples, held, report, button_called, seen,
           b1, b2, dec, enc,
           vec_input, cfg_deadzone, cfg_scale_factor, cfg_num_axes, cal_fn,
           partial_output, final_output, handed, div_zero,
           events, last_process_time, batch_size, max_delay, lock_owner, now, pc, ret,
           caller_state, current_is_caller, current, previous, changed, given,
           cache, max_size, op,
           event_queue, log_file, metrics, thread_alive, w_pc, w_event, cl_pc,
           calls, queued, got, last_call,
           library, dev_running, dev_device, _last_state, mgr_running, main_pc, kb_pc,
           key_pending, stop_requested,
           available_movements, movement_patterns, reg_op >>

gamepadVars == << x, y, z, idx, idx2, count_state, ctl, keepRunning >>
hidVars     == << mappings, dict_state, tuple_state, hid_alive, device, active_device,
                  l_count_state, l_idx2, l_idx3 >>
obsVars     == << wire, err, samples, held, report, button_called, seen >>
int16Vars   == << b1, b2, dec, enc >>
calVars     == << vec_input, cfg_deadzone, cfg_scale_factor, cfg_num_axes, cal_fn,
                  partial_output, final_output, handed, div_zero >>
batcherVars == << events, last_process_time, batch_size, max_delay, lock_owner, now, pc, ret >>
coreVars    == << gamepadVars, hidVars, obsVars, int16Vars, calVars, batcherVars >>
optVars     == << caller_state, current_is_caller, current, previous, changed, given,
                  cache, max_size, op >>
logVars     == << event_queue, log_file, metrics, thread_alive, w_pc, w_event, cl_pc,
                  calls, queued, got, last_call >>
stopVars    == << library, dev_running, dev_device, _last_state, mgr_running, main_pc,
                  kb_pc, key_pending, stop_requested >>
regVars     == << available_movements, movement_patterns, reg_op >>
demoVars    == << optVars, logVars, stopVars, regVars >>
notOptVars  == << logVars, stopVars, regVars >>
notLogVars  == << optVars, stopVars, regVars >>
notStopVars == << optVars, logVars, regVars >>
notRegVars  == << optVars, logVars, stopVars >>

(***************************************************************************)
(* Bounds of the model.                                                    *)
(***************************************************************************)
MaxCount == 12          \* LISU.count_state is followed up to this value
MaxTime == 4            \* the clock of the event batcher is followed up to this tick

(***************************************************************************)
(* Program constants.                                                      *)
(***************************************************************************)
FP == 10000             \* four decimals: np.round(..., 4)
DEADZONE == 3000        \* normaliseValue(deadzone = 0.3), in units of 1/FP
AXIS_SCALE == 350       \* DeviceSpec(axis_scale = 350.0)
fun_array == << "addrotation", "addrotationclip" >>
TemplateCount == Len(fun_array)

Abs(n) == IF n < 0 THEN -n ELSE n
Sign(n) == IF n < 0 THEN -1 ELSE IF n > 0 THEN 1 ELSE 0
Min(a, b) == IF a < b THEN a ELSE b

\* last two entries of a sequence after appending e
Push2(s, e) == IF Len(s) = 0 THEN << e >> ELSE << s[Len(s)], e >>

(***************************************************************************)
(* to_int16  (LISU_devices.py:38-42)                                       *)
(***************************************************************************)
to_int16_ge_mut(y1, y2) ==
    LET v == y1 + 256 * y2 IN IF v > 32768 THEN -(65536 - v) ELSE v

to_int16(y1, y2) ==
    LET v == y1 + 256 * y2      \* (y1) | (y2 << 8) for bytes
    IN  IF v >= 32768 THEN -(65536 - v) ELSE v

(***************************************************************************)
(* Floating point values that are not numbers.  A numpy division by zero   *)
(* does not raise: it yields inf or nan (with a RuntimeWarning), and nan   *)
(* compares false with everything.  A value is an integer in units of 1/FP *)
(* or one of NaN, Inf, -Inf.                                               *)
(***************************************************************************)
NaN == 2000000001
Inf == 2000000000

IsNaN(a) == a = NaN
IsInf(a) == a = Inf \/ a = -Inf

\* quotient of non-negative a by positive b, rounded to nearest
RDiv(a, b) == (2 * a + b) \div (2 * b)

XAbs(a) == IF IsNaN(a) THEN NaN ELSE Abs(a)
XGt(a, b) == ~IsNaN(a) /\ ~IsNaN(b) /\ a > b
XNe(a, b) == IsNaN(a) \/ IsNaN(b) \/ a # b

XAdd(a, b) ==
    IF IsNaN(a) \/ IsNaN(b) THEN NaN
    ELSE IF IsInf(a) /\ IsInf(b) THEN (IF a = b THEN a ELSE NaN)
    ELSE IF IsInf(a) THEN a
    ELSE IF IsInf(b) THEN b
    ELSE a + b

XSub(a, b) == XAdd(a, IF IsNaN(b) THEN NaN ELSE -b)

\* a * b, the product of two values in units of 1/u being in units of 1/u
XMul(a, b, u) ==
    IF IsNaN(a) \/ IsNaN(b) THEN NaN
    ELSE IF IsInf(a) \/ IsInf(b)
         THEN (IF a = 0 \/ b = 0 THEN NaN ELSE Sign(a) * Sign(b) * Inf)
    ELSE Sign(a) * Sign(b) * RDiv(Abs(a) * Abs(b), u)

\* a / b in units of 1/u; a zero divisor gives nan or inf
XDiv(a, b, u) ==
    IF IsNaN(a) \/ IsNaN(b) THEN NaN
    ELSE IF IsInf(a) /\ IsInf(b) THEN NaN
    ELSE IF IsInf(a) THEN (IF b < 0 THEN -a ELSE a)
    ELSE IF IsInf(b) THEN 0
    ELSE IF b = 0 THEN (IF a = 0 THEN NaN ELSE Sign(a) * Inf)
    ELSE Sign(a) * Sign(b) * RDiv(Abs(a) * u, Abs(b))

(***************************************************************************)
(* Calibration  (Actuation.py:208-279), in fixed point with unit 1/FP.     *)
(***************************************************************************)
RECURSIVE SqrtIter(_, _)
SqrtIter(n, g) ==
    LET g2 == (g + n \div g) \div 2 IN IF g2 >= g THEN g ELSE SqrtIter(n, g2)

\* floor of the square root
ISqrt(n) == IF n = 0 THEN 0 ELSE SqrtIter(n, n)

\* np.linalg.norm of a 3-vector, in units of 1/FP
Norm(v) == ISqrt(v[1] * v[1] + v[2] * v[2] + v[3] * v[3])

\* np.linalg.norm(v) < deadzone, decided exactly on the squares
NormBelow(v, deadzone) ==
    deadzone > 0 /\ v[1] * v[1] + v[2] * v[2] + v[3] * v[3] < deadzone * deadzone

\* map_range(v, (old_min, old_max, new_min, new_max))
map_range(v, old_min, old_max, new_min, new_max) ==
    XAdd(new_min, XDiv(XMul(new_max - new_min, XSub(v, old_min), FP),
                       XSub(old_max, old_min), FP))

\* one component of dzSlopedScaledAxial: v gated and remapped with dz_v
AxialComponent(v, dz_v) ==
    IF XGt(XAbs(v), dz_v)
    THEN XMul(Sign(v) * FP, map_range(XAbs(v), dz_v, FP, 0, FP), FP)
    ELSE 0

\* the deadzone of each output component is taken from stick_input[2],
\* stick_input[1], stick_input[0] (0-based), in this order
dzSlopedScaledAxial(stick_input, deadzone) ==
    LET deadzone_x == XMul(deadzone, XAbs(stick_input[3]), FP)
        deadzone_y == XMul(deadzone, XAbs(stick_input[2]), FP)
        deadzone_z == XMul(deadzone, XAbs(stick_input[1]), FP)
    IN  << AxialComponent(stick_input[1], deadzone_x),
           AxialComponent(stick_input[2], deadzone_y),
           AxialComponent(stick_input[3], deadzone_z) >>

\* (s / magnitude) * m for one component s of a vector of norm magnitude
Rescale(s, magnitude, m) ==
    IF magnitude = 0 \/ IsNaN(m) \/ IsInf(m)
    THEN XMul(XDiv(s, magnitude, FP), m, FP)
    ELSE Sign(s) * Sign(m) * RDiv(Abs(s) * Abs(m), magnitude)

dzScaledRadial(stick_input, deadzone) ==
    LET input_magnitude == Norm(stick_input)
        m == map_range(input_magnitude, deadzone, FP, 0, FP)
    IN  IF NormBelow(stick_input, deadzone)
        THEN << 0, 0, 0 >>
        ELSE << Rescale(stick_input[1], input_magnitude, m),
                Rescale(stick_input[2], input_magnitude, m),
                Rescale(stick_input[3], input_magnitude, m) >>

dzCalibration_nogate_mut(stick_input, deadzone) ==
    IF NormBelow(stick_input, deadzone)
    THEN dzSlopedScaledAxial(stick_input, deadzone)
    ELSE dzSlopedScaledAxial(dzScaledRadial(stick_input, deadzone), deadzone)

dzCalibration(stick_input, deadzone) ==
    IF NormBelow(stick_input, deadzone)
    THEN << 0, 0, 0 >>
    ELSE dzSlopedScaledAxial(dzScaledRadial(stick_input, deadzone), deadzone)

\* nan is neither above 1.0 nor below -1.0
Clamp(v) == IF IsNaN(v) THEN NaN ELSE IF v > FP THEN FP ELSE IF v < -FP THEN -FP ELSE v

\* normaliseValue: reads the module globals x, y, z
normaliseValue(gx, gy, gz, deadzone) ==
    LET VecInputM == << -1 * gx, gy, gz >>
        c == dzCalibration(VecInputM, deadzone)
    IN  << Clamp(c[1]), Clamp(c[2]), Clamp(c[3]) >>

\* a division of the calibration ran with a divisor of 0: the division by
\* the magnitude, or by (old_max - old_min) in map_range
DivZero(stick_input, deadzone) ==
    LET p == dzScaledRadial(stick_input, deadzone)
        taken(v, dz_v) == XGt(XAbs(v), dz_v) /\ XSub(FP, dz_v) = 0
    IN  /\ ~NormBelow(stick_input, deadzone)
        /\ \/ Norm(stick_input) = 0
           \/ FP - deadzone = 0
           \/ taken(p[1], XMul(deadzone, XAbs(p[3]), FP))
           \/ taken(p[2], XMul(deadzone, XAbs(p[2]), FP))
           \/ taken(p[3], XMul(deadzone, XAbs(p[1]), FP))

(***************************************************************************)
(* Dispatch on the gamepad path  (Actuation.py:104-169)                    *)
(***************************************************************************)
\* fun_drishti: the counter after the call, whether packetHandler was
\* called, and whether its exception left the function
fun_drishti_thr_mut(cs, sendOk) ==
    LET c1 == cs + 1 IN
    IF c1 = 1
    THEN [count |-> IF sendOk THEN 0 ELSE c1, sent |-> TRUE, raised |-> ~sendOk]
    ELSE [count |-> c1, sent |-> FALSE, raised |-> FALSE]

fun_drishti(cs, sendOk) ==
    LET c1 == cs + 1 IN
    IF c1 = 2
    THEN [count |-> IF sendOk THEN 0 ELSE c1, sent |-> TRUE, raised |-> ~sendOk]
    ELSE [count |-> c1, sent |-> FALSE, raised |-> FALSE]

\* the text fun_drishti formats: template, -x, -y, z, str(idx2)
DrishtiMessage(i, state, sens) ==
    << fun_array[i + 1], -1 * state[1], -1 * state[2], state[3], sens >>

LisuProcesses_always_mut(V, cs, sendOk) == fun_drishti(cs, sendOk)

\* LisuProcesses: fun_drishti is called only for a non-zero vector
LisuProcesses(V, cs, sendOk) ==
    IF V[1] # 0 \/ V[2] # 0 \/ V[3] # 0
    THEN fun_drishti(cs, sendOk)
    ELSE [count |-> cs, sent |-> FALSE, raised |-> FALSE]

changeActuationHandler(val, i) ==
    IF val = 1
    THEN (IF i + 1 >= 2 THEN 0 ELSE i + 1)
    ELSE i

subAngleHandler(val, s) ==
    IF val = 1
    THEN LET s1 == IF s = 1 THEN s + 4 ELSE s + 5
         IN  IF s1 >= 25 THEN 1 ELSE s1
    ELSE s

\* Controllers.processButton: the callback runs only when the state read
\* differs from the last state
processButton(lastState, btnState) ==
    [state |-> btnState, called |-> lastState # btnState]

(***************************************************************************)
(* Inputs of the gamepad path: what pygame returns at one poll.            *)
(***************************************************************************)
LeftLRVals  == { 0, 2000, 6000 }
LeftUDVals  == { 0 }
RightLRVals == { 0, -6000 }
RightUDVals == { 0 }
LeftTrigVals  == { 0, 6000 }
RightTrigVals == { 0 }

CtlInit ==
    [ leftStickLR |-> 0, leftStickUD |-> 0,
      rightStickLR |-> 0, rightStickUD |-> 0,
      leftTriggerPos |-> -FP, rightTriggerPos |-> -FP,
      leftTriggerActivated |-> FALSE, rightTriggerActivated |-> FALSE,
      triangleBtnState |-> 0, squareBtnState |-> 0 ]

\* the outcomes of the datagram send that can matter to a call
SendOutcomes(willSend) == IF willSend THEN BOOLEAN ELSE { TRUE }

(***************************************************************************)
(* One iteration of the polling loop of LisuGamepad (LISU.py:439-442):     *)
(* Controllers.controllerStatus followed by Actuation.LisuProcesses.       *)
(***************************************************************************)
\* controllerStatus: the fields and globals after reading the sticks,
\* triggers and buttons
controllerStatus(c, g, lr, ud, rlr, rud, lt, rt, tri, sq) ==
    LET leftMoved  == c.leftStickLR # lr \/ c.leftStickUD # ud
        rightMoved == c.rightStickLR # rlr \/ c.rightStickUD # rud
        lAct == c.leftTriggerActivated \/ lt # 0
        lChg == lAct /\ c.leftTriggerPos # lt
        rAct == c.rightTriggerActivated \/ rt # 0
        rChg == rAct /\ c.rightTriggerPos # rt
        pt == processButton(c.triangleBtnState, tri)
        ps == processButton(c.squareBtnState, sq)
    IN  [ ctl |-> [ leftStickLR |-> lr, leftStickUD |-> ud,
                    rightStickLR |-> rlr, rightStickUD |-> rud,
                    leftTriggerPos |-> IF lChg THEN lt ELSE c.leftTriggerPos,
                    rightTriggerPos |-> IF rChg THEN rt ELSE c.rightTriggerPos,
                    leftTriggerActivated |-> lAct, rightTriggerActivated |-> rAct,
                    triangleBtnState |-> pt.state, squareBtnState |-> ps.state ],
          x |-> IF leftMoved THEN lr + ud ELSE g.x,               \* xAxisChangeHandler
          y |-> IF rightMoved THEN rlr + rud ELSE g.y,            \* yAxisChangeHandler
          z |-> IF rChg THEN rt ELSE IF lChg THEN lt ELSE g.z,    \* zAxisChangeHandler
          idx  |-> IF pt.called THEN changeActuationHandler(tri, g.idx) ELSE g.idx,
          idx2 |-> IF ps.called THEN subAngleHandler(sq, g.idx2) ELSE g.idx2 ]

Poll ==
    /\ path = "gamepad"
    /\ keepRunning
    /\ \E lr \in LeftLRVals, ud \in LeftUDVals, rlr \in RightLRVals, rud \in RightUDVals,
          lt \in LeftTrigVals, rt \in RightTrigVals,
          tri \in 0..1, sq \in 0..1, quit \in BOOLEAN :
        \E cs \in { controllerStatus(ctl, [x |-> x, y |-> y, z |-> z, idx |-> idx, idx2 |-> idx2],
                                     lr, ud, rlr, rud, lt, rt, tri, sq) } :
        \E V \in { normaliseValue(cs.x, cs.y, cs.z, DEADZONE) } :
        \E sendOk \in SendOutcomes(LisuProcesses(V, count_state, TRUE).sent) :
        \E r \in { LisuProcesses(V, count_state, sendOk) } :
            /\ x' = cs.x /\ y' = cs.y /\ z' = cs.z
            /\ ctl' = cs.ctl
            /\ idx' = cs.idx
            /\ idx2' = cs.idx2
            /\ count_state' = r.count
            \* an exception leaves the while loop; so does a QUIT event
            /\ keepRunning' = (~quit /\ ~r.raised)
            /\ wire' = IF r.sent THEN DrishtiMessage(cs.idx, V, cs.idx2) ELSE << >>
            /\ err' = IF r.raised THEN "send" ELSE "none"
            /\ samples' = Push2(samples, [cb |-> count_state, nz |-> V # << 0, 0, 0 >>,
                                          sent |-> r.sent, ok |-> r.sent /\ ~r.raised])
            /\ held' = << tri, sq >>
            /\ report' = << >>
            /\ UNCHANGED << button_called, seen >>
    /\ UNCHANGED << path, demoVars, hidVars, int16Vars, calVars, batcherVars >>

(***************************************************************************)
(* Raw-report path: DeviceSpec  (LISU_devices.py:133-283)                  *)
(***************************************************************************)
AxisNames == { "x", "y", "z", "roll", "pitch", "yaw" }

AxisSpec(c, p1, p2, s) == [channel |-> c, byte1 |-> p1, byte2 |-> p2, scale |-> s]
ButtonSpec(c, p, b) == [channel |-> c, byte |-> p, bit |-> b]

\* two rows of the device catalog: a device that splits translation,
\* rotation and buttons over three report types, and one that packs axes
\* and a button into the same report type
MappingSplit ==
    [ axes |-> [ x |-> AxisSpec(1, 1, 2, 1),  y |-> AxisSpec(1, 3, 4, -1),
                 z |-> AxisSpec(1, 5, 6, -1), pitch |-> AxisSpec(2, 1, 2, -1),
                 roll |-> AxisSpec(2, 3, 4, -1), yaw |-> AxisSpec(2, 5, 6, 1) ],
      buttons |-> << ButtonSpec(3, 1, 0), ButtonSpec(3, 1, 1) >> ]

MappingPacked ==
    [ axes |-> [ x |-> AxisSpec(1, 1, 2, 127), y |-> AxisSpec(1, 3, 4, 1),
                 z |-> AxisSpec(2, 1, 2, 1),   pitch |-> AxisSpec(1, 3, 4, -1),
                 roll |-> AxisSpec(2, 1, 2, 1), yaw |-> AxisSpec(2, 3, 4, 1) ],
      buttons |-> << ButtonSpec(1, 5, 0), ButtonSpec(3, 1, 1) >> ]

Mappings == { MappingSplit, MappingPacked }

\* raw reports the HID layer may deliver (byte sequences, data[0] first)
Reports ==
    { << >>,
      << 1, 10, 0 >>,
      << 1, 0, 128, 200, 0, 0, 1 >>,
      << 2, 100, 0, 0, 0, 3, 0 >>,
      << 2, 0, 0, 0, 0, 0, 0 >>,
      << 3, 0 >>, << 3, 1 >>, << 3, 2 >>, << 3, 3 >>,
      << 3 >> }

\* data[i] with Python's 0-based index
Byte(data, i) == data[i + 1]

Pow2(n) == IF n = 0 THEN 1 ELSE IF n = 1 THEN 2 ELSE IF n = 2 THEN 4
           ELSE IF n = 3 THEN 8 ELSE IF n = 4 THEN 16 ELSE IF n = 5 THEN 32
           ELSE IF n = 6 THEN 64 ELSE 128

\* (data[byte] & (1 << bit)) != 0
BitSet(v, bit) == (v \div Pow2(bit)) % 2 = 1

DictInit ==
    [ t |-> -1, x |-> 0, y |-> 0, z |-> 0, roll |-> 0, pitch |-> 0, yaw |-> 0,
      buttons |-> << 0, 0 >> ]

\* axis loop of process (lines 248-258): the new value of one axis, as the
\* numerator of  value / float(axis_scale)
AxisAfter_nochan_mut(m, d, name, data) ==
    LET a == m.axes[name] IN
    IF a.byte1 < Len(data) /\ a.byte2 < Len(data)
    THEN a.scale * to_int16(Byte(data, a.byte1), Byte(data, a.byte2))
    ELSE d[name]

AxisAfter_div_mut(m, d, name, data) ==
    LET a == m.axes[name] IN
    IF Byte(data, 0) = a.channel /\ a.byte1 < Len(data) /\ a.byte2 < Len(data)
    THEN to_int16(Byte(data, a.byte1), Byte(data, a.byte2))
    ELSE d[name]

AxisAfter(m, d, name, data) ==
    LET a == m.axes[name] IN
    IF Byte(data, 0) = a.channel /\ a.byte1 < Len(data) /\ a.byte2 < Len(data)
    THEN a.scale * to_int16(Byte(data, a.byte1), Byte(data, a.byte2))
    ELSE d[name]

\* button loop of process (lines 262-269), button by button; an offset
\* outside the report raises IndexError and ends the loop
RECURSIVE ButtonLoop(_, _, _, _, _)
ButtonLoop(m, data, i, btns, bchanged) ==
    IF i > Len(m.buttons)
    THEN [buttons |-> btns, button_changed |-> bchanged, raised |-> FALSE]
    ELSE LET b == m.buttons[i] IN
         IF Byte(data, 0) = b.channel
         THEN IF b.byte < Len(data)
              THEN ButtonLoop(m, data, i + 1,
                              [btns EXCEPT ![i] = IF BitSet(Byte(data, b.byte), b.bit) THEN 1 ELSE 0],
                              TRUE)
              ELSE [buttons |-> btns, button_changed |-> TRUE, raised |-> TRUE]
         ELSE ButtonLoop(m, data, i + 1, btns, bchanged)

\* abs(n / axis_scale) > tenths / 10
Exceeds(n, tenths) == Abs(n) * 10 > tenths * AXIS_SCALE

(***************************************************************************)
(* LISU.callback_function (LISU.py:79-127) and toggle_led (130-157)        *)
(***************************************************************************)
\* the vector callback_function formats: the translational values are
\* computed first and then overwritten by the rotational ones
CallbackVector(st) ==
    LET var_x0 == IF Exceeds(st.x, 3) THEN -1 * st.x ELSE 0
        var_y0 == IF Exceeds(st.y, 2) THEN -1 * st.y ELSE 0
        var_z0 == IF Exceeds(st.z, 2) THEN st.z ELSE 0
        var_x == IF Exceeds(st.pitch, 2) THEN -1 * st.pitch ELSE 0
        var_y == IF Exceeds(st.yaw, 2) THEN -1 * st.yaw ELSE 0
        var_z == IF Exceeds(st.roll, 2) THEN st.roll ELSE 0
    IN  << var_x, var_y, var_z >>

callback_function(st, cs, sendOk) ==
    LET c1 == cs + 1
        V == CallbackVector(st)
        nz == V # << 0, 0, 0 >>
    IN  IF c1 = 10
        THEN [count |-> IF nz /\ ~sendOk THEN c1 ELSE 0,
              sent |-> nz, raised |-> nz /\ ~sendOk, vec |-> V]
        ELSE [count |-> c1, sent |-> FALSE, raised |-> FALSE, vec |-> V]

toggle_led_wrap_mut(buttons, i2, i3) ==
    [ idx2 |-> IF buttons[1] = 1
               THEN (IF i2 + 1 > 2 THEN 0 ELSE i2 + 1)
               ELSE i2,
      idx3 |-> IF buttons[2] = 1
               THEN LET s1 == IF i3 = 1 THEN i3 + 4 ELSE i3 + 5
                    IN  IF s1 >= 25 THEN 1 ELSE s1
               ELSE i3 ]

toggle_led(buttons, i2, i3) ==
    [ idx2 |-> IF buttons[1] = 1
               THEN (IF i2 + 1 >= 2 THEN 0 ELSE i2 + 1)
               ELSE i2,
      idx3 |-> IF buttons[2] = 1
               THEN LET s1 == IF i3 = 1 THEN i3 + 4 ELSE i3 + 5
                    IN  IF s1 >= 25 THEN 1 ELSE s1
               ELSE i3 ]

(***************************************************************************)
(* DeviceSpec.process(data) with the callbacks set by Lisu3DInput          *)
(* (callback = callback_function, button_callback = toggle_led).           *)
(***************************************************************************)
\* dict_state after the axis loop
AxesAfter(m, d, data) ==
    [ d EXCEPT !.x = AxisAfter(m, d, "x", data),
               !.y = AxisAfter(m, d, "y", data),
               !.z = AxisAfter(m, d, "z", data),
               !.pitch = AxisAfter(m, d, "pitch", data),
               !.roll = AxisAfter(m, d, "roll", data),
               !.yaw = AxisAfter(m, d, "yaw", data) ]

\* self.dict_state["t"] = high_acc_clock(): the clock is kept as a tick
\* that differs from the previous stamp
Stamp(t) == IF t = 0 THEN 1 ELSE 0

TupleOf(d) == [ t |-> d.t, x |-> d.x, y |-> d.y, z |-> d.z,
                roll |-> d.roll, pitch |-> d.pitch, yaw |-> d.yaw ]

HidMessage(i, V, sens) == << fun_array[i + 1], V[1], V[2], V[3], sens >>

\* the channel of the report, when an axis of the mapping is on it
AxisChannel(m, data) ==
    { c \in { Byte(data, 0) } : \E name \in AxisNames : m.axes[name].channel = c }

\* data[0] on an empty report raises IndexError before anything is written
ProcessEmpty(survive) ==
    /\ err' = "index"
    /\ wire' = << >>
    /\ hid_alive' = survive
    /\ UNCHANGED << mappings, dict_state, tuple_state, l_count_state, l_idx2, l_idx3 >>
    /\ report' = << >>
    /\ button_called' = FALSE
    /\ UNCHANGED << samples, held, seen >>

ProcessData(data, bl, d2) ==
    IF bl.raised
    THEN \* IndexError in the button loop: no timestamp, no tuple, no callback
         /\ dict_state' = d2
         /\ err' = "index"
         /\ wire' = << >>
         /\ hid_alive' \in BOOLEAN
         /\ held' = bl.buttons
         /\ report' = data
         /\ button_called' = FALSE
         /\ seen' = seen \cup AxisChannel(mappings, data)
         /\ UNCHANGED << mappings, tuple_state, l_count_state, l_idx2, l_idx3, samples >>
    ELSE \E d3 \in { [d2 EXCEPT !.t = Stamp(d2.t)] } :
         \E sendOk \in SendOutcomes(callback_function(d3, l_count_state, TRUE).sent) :
         \E cb \in { callback_function(d3, l_count_state, sendOk) } :
         \E tl \in { IF bl.button_changed /\ ~cb.raised
                     THEN toggle_led(d3.buttons, l_idx2, l_idx3)
                     ELSE [idx2 |-> l_idx2, idx3 |-> l_idx3] } :
             /\ dict_state' = d3
             /\ tuple_state' = TupleOf(d3)
             /\ l_count_state' = cb.count
             /\ l_idx2' = tl.idx2
             /\ l_idx3' = tl.idx3
             /\ wire' = IF cb.sent THEN HidMessage(l_idx2, cb.vec, l_idx3) ELSE << >>
             /\ err' = IF cb.raised THEN "send" ELSE "none"
             /\ IF cb.raised THEN hid_alive' \in BOOLEAN ELSE hid_alive' = TRUE
             /\ samples' = Push2(samples, [cb |-> l_count_state, nz |-> cb.vec # << 0, 0, 0 >>,
                                           sent |-> cb.sent, ok |-> cb.sent /\ ~cb.raised])
             /\ held' = d3.buttons
             /\ report' = data
             /\ button_called' = (bl.button_changed /\ ~cb.raised)
             /\ seen' = seen \cup AxisChannel(mappings, data)
             /\ UNCHANGED mappings

\* the raw data handler installed by Lisu3DInput: one report.  An exception
\* ends in the HID reader thread, which is not part of this repository: it
\* may or may not deliver further reports.
Process ==
    /\ path = "hid"
    /\ hid_alive
    /\ l_count_state < MaxCount
    /\ \E data \in Reports :
          IF Len(data) = 0
          THEN \E survive \in BOOLEAN : ProcessEmpty(survive)
          ELSE \E bl \in { ButtonLoop(mappings, data, 1, dict_state.buttons, FALSE) } :
               \E d2 \in { [AxesAfter(mappings, dict_state, data) EXCEPT !.buttons = bl.buttons] } :
                   ProcessData(data, bl, d2)
    /\ UNCHANGED << path, demoVars, device, active_device, gamepadVars, int16Vars, calVars, batcherVars >>

\* Lisu3DInput up to the wait loop (lines 483-496): the copy of the spec
\* gets its HID device, is opened, gets the raw data handler and becomes
\* the active device.  (When open() raises, the finally clause closes the
\* copy again and nothing has changed.)
Lisu3DInput ==
    /\ path = "hid"
    /\ device = "None" /\ active_device = "None"
    /\ device' = "open"
    /\ active_device' = "new_device"
    /\ hid_alive' = TRUE
    /\ UNCHANGED << path, demoVars, gamepadVars, int16Vars, calVars, batcherVars, obsVars,
                    mappings, dict_state, tuple_state,
                    l_count_state, l_idx2, l_idx3 >>

\* kbhit() or unplugging ends the session: new_device.close() sets
\* DeviceSpec.device to None; LISU._active_device is not written
HidClose ==
    /\ path = "hid"
    /\ device = "open"
    /\ device' = "None"
    /\ hid_alive' = FALSE
    /\ UNCHANGED << path, demoVars, gamepadVars, int16Vars, calVars, batcherVars, obsVars,
                    mappings, dict_state, tuple_state, active_device,
                    l_count_state, l_idx2, l_idx3 >>

\* DeviceSpec.read(): the state tuple, or None (<< >>) when not connected
DeviceSpec_read == IF device # "None" THEN << tuple_state >> ELSE << >>

\* LISU.read(): the state tuple of the active device, or None (<< >>)
read == IF active_device # "None" THEN << tuple_state >> ELSE << >>

(***************************************************************************)
(* Specification of the two device pipelines.                              *)
(***************************************************************************)
ObsInit ==
    /\ wire = << >>
    /\ err = "none"
    /\ samples = << >>
    /\ held = << 0, 0 >>
    /\ report = << >>
    /\ button_called = FALSE
    /\ seen = { }

StateInit ==
    /\ x = 0 /\ y = 0 /\ z = 0
    /\ idx = 0 /\ idx2 = 1 /\ count_state = 0
    /\ ctl = CtlInit
    /\ keepRunning = TRUE
    /\ dict_state = DictInit
    /\ tuple_state = TupleOf(DictInit)
    /\ hid_alive = FALSE
    /\ device = "None" /\ active_device = "None"
    /\ l_count_state = 0 /\ l_idx2 = 0 /\ l_idx3 = 1
    /\ ObsInit

\* no byte pair is being decoded
Int16Idle == b1 = 0 /\ b2 = 0 /\ dec = 0 /\ enc = << >>

\* no sample is being calibrated on its own; the configuration is the one
\* of the running code (deadzone = 0.3, no scale factor)
CalIdle ==
    /\ vec_input = << 0, 0, 0 >>
    /\ cfg_deadzone = DEADZONE /\ cfg_scale_factor = FP /\ cfg_num_axes = 3
    /\ cal_fn = "none"
    /\ partial_output = << >> /\ final_output = << >> /\ handed = << >>
    /\ div_zero = FALSE

Threads == { 1, 2 }

\* what a call returned: None, or a batch
RetNone == [kind |-> "None", batch |-> << >>]
RetBatch(b) == [kind |-> "batch", batch |-> b]

\* OptimisationManager's EventBatcher() before any call: the defaults
\* batch_size = 100, max_delay = 0.01 s (one tick is 0.01 s)
BatcherIdle ==
    /\ events = << >>
    /\ last_process_time = 0 /\ now = 0
    /\ batch_size = 100 /\ max_delay = 1
    /\ lock_owner = 0
    /\ pc = [t \in Threads |-> "idle"]
    /\ ret = [t \in Threads |-> RetNone]

(***************************************************************************)
(* OptimisedState and TransformationCache (demo/src/LISU/optimisation.py). *)
(* A dictionary is a function on its possible keys; Absent marks a key     *)
(* the dictionary does not hold.                                           *)
(***************************************************************************)
StateKeys == { "x", "y" }
StateValues == { 0, 1 }
Absent == -1
Dicts == [StateKeys -> StateValues \cup { Absent }]
EmptyDict == [k \in StateKeys |-> Absent]

CacheKeys == { "a", "b", "c", "d" }
CacheValues == { 1, 2 }
MaxSize == 2            \* TransformationCache.max_size (1000 in the source)
MaxEvents == 3          \* calls of log_event, log_error, log_warning that are followed
MaxKeys == 2            \* keys the console buffer holds

NoOp == [name |-> "none", key |-> "", value |-> 0, result |-> << >>, dropped |-> << >>]
Call(n) == [name |-> n, key |-> "", value |-> 0, result |-> << >>, dropped |-> << >>]

\* OptimisationManager() before any call; the device state before any report
OptIdle ==
    /\ caller_state = EmptyDict /\ current_is_caller = FALSE
    /\ current = EmptyDict /\ previous = EmptyDict /\ changed = { }
    /\ given = EmptyDict
    /\ cache = << >> /\ max_size = MaxSize
    /\ op = NoOp

(***************************************************************************)
(* LisuLogger (demo/src/LISU/logging.py).                                  *)
(***************************************************************************)
Metrics(n, e, w) == [events_processed |-> n, errors |-> e, warnings |-> w]
NoEvent == [type |-> "none", n |-> 0]
Shutdown == [type |-> "None", n |-> 0]

\* LisuLogger() after construction: the event thread waits on the empty queue
LogIdle ==
    /\ event_queue = << >> /\ log_file = << >>
    /\ metrics = Metrics(0, 0, 0)
    /\ thread_alive = TRUE /\ w_pc = "get" /\ w_event = NoEvent
    /\ cl_pc = "idle"
    /\ calls = Metrics(0, 0, 0)
    /\ queued = << >>
    /\ got = Metrics(0, 0, 0)
    /\ last_call = "none"

(***************************************************************************)
(* InputDevice monitoring and LisuManager stop (demo/src/LISU/devices.py,  *)
(* demo/src/LisuHandler.py).                                               *)
(***************************************************************************)
JoyStates == { 0, 1, 2 }
Keys == { "esc", "other" }

\* LisuManager() and InputDevice() after construction, before
\* configure_and_run starts the device
StopIdle ==
    /\ library = "pywinusb"
    /\ dev_running = "set" /\ dev_device = "None" /\ _last_state = 0
    /\ mgr_running = TRUE
    /\ main_pc = "start" /\ kb_pc = "poll"
    /\ key_pending = << >>
    /\ stop_requested = FALSE

(***************************************************************************)
(* MovementRegistry (demo/src/core/movement_registry.py).                  *)
(***************************************************************************)
MovementNames == { "rotate", "pan", "zoom" }
PatternNames == { "orbit", "fly" }
MaxPattern == 2         \* movements a pattern lists at most
MovementLists == UNION { [1..n -> MovementNames] : n \in 0..MaxPattern }

RegCall(n, k, ms, r, d) ==
    [name |-> n, key |-> k, movements |-> ms, raised |-> r, dropped |-> d]

\* MovementRegistry() after construction
RegIdle ==
    /\ available_movements = { }
    /\ movement_patterns = [p \in PatternNames |-> << >>]
    /\ reg_op = RegCall("none", "", << >>, FALSE, { })

DemoIdle == OptIdle /\ LogIdle /\ StopIdle /\ RegIdle
NotOptIdle == LogIdle /\ StopIdle /\ RegIdle
NotLogIdle == OptIdle /\ StopIdle /\ RegIdle
NotStopIdle == OptIdle /\ LogIdle /\ RegIdle
NotRegIdle == OptIdle /\ LogIdle /\ StopIdle

CoreIdle ==
    /\ mappings = MappingSplit
    /\ StateInit
    /\ Int16Idle
    /\ CalIdle
    /\ BatcherIdle

Init ==
    /\ \/ path = "gamepad" /\ mappings = MappingSplit
       \/ path = "hid" /\ mappings \in Mappings
    /\ StateInit
    /\ DemoIdle
    /\ Int16Idle
    /\ CalIdle
    /\ BatcherIdle

Next == Poll \/ Lisu3DInput \/ Process \/ HidClose

Spec == Init /\ [][Next]_vars

(***************************************************************************)
(* Specification of the to_int16 round trip: every byte pair is decoded    *)
(* and encoded back.                                                       *)
(***************************************************************************)
\* little-endian two's-complement encoding of v
Encode16(v) == LET u == v % 65536 IN << u % 256, u \div 256 >>

InitInt16 ==
    /\ path = "int16" /\ mappings = MappingSplit
    /\ StateInit
    /\ DemoIdle
    /\ b1 \in 0..255 /\ b2 \in 0..255
    /\ dec = 0 /\ enc = << >>
    /\ CalIdle
    /\ BatcherIdle

Decode ==
    /\ path = "int16"
    /\ enc = << >>
    /\ dec' = to_int16(b1, b2)
    /\ enc' = Encode16(to_int16(b1, b2))
    /\ UNCHANGED << path, demoVars, gamepadVars, hidVars, obsVars, calVars, batcherVars, b1, b2 >>

NextInt16 == Decode

SpecInt16 == InitInt16 /\ [][NextInt16]_vars

(***************************************************************************)
(* Calibration of one sample as a function of the session configuration:   *)
(* normaliseValue behind LisuProcesses (Actuation.py:104-119, 260-279) and *)
(* Actuation.process_input of demo/ (demo/src/Actuation.py:180-254).       *)
(***************************************************************************)
\* raw vectors of a sample; the x axis is the sum of two stick readings
CalX == { -6000, 0, 2000, 6000, 10000, 20000 }
CalY == { -6000, -2000, 0, 10000 }
CalZ == { 0, 2000, 6000 }

\* configurations the loaders accept: float(cal.get(...)) of any number
Deadzones == { 0, 1000, 3000, 10000, 15000 }
ScaleFactors == { FP, 2 * FP }
NumAxes == { 2, 3 }

Zero3 == << 0, 0, 0 >>

\* any(v != 0.0 for v in vec)
AnyNonZero(v) == XNe(v[1], 0) \/ XNe(v[2], 0) \/ XNe(v[3], 0)

\* Actuation._dz_calibration of demo/
_dz_calibration(stick_input, deadzone) ==
    LET magnitude == Norm(stick_input)
        f == XDiv(XSub(magnitude, deadzone), XSub(FP, deadzone), FP)
    IN  IF NormBelow(stick_input, deadzone)
        THEN Zero3
        ELSE << Rescale(stick_input[1], magnitude, f),
                Rescale(stick_input[2], magnitude, f),
                Rescale(stick_input[3], magnitude, f) >>

\* Actuation.normalise_value of demo/: np.clip(_dz_calibration(...), -1.0, 1.0)
normalise_value(input_pwm, deadzone) ==
    LET c == _dz_calibration(input_pwm, deadzone)
    IN  << Clamp(c[1]), Clamp(c[2]), Clamp(c[3]) >>

\* the vector process_input passes on (lines 187-194)
process_input(v, num_axes, deadzone, scale_factor) ==
    IF num_axes >= 3
    THEN LET c == normalise_value(v, deadzone)
         IN  << XMul(c[1], scale_factor, FP), XMul(c[2], scale_factor, FP),
                XMul(c[3], scale_factor, FP) >>
    ELSE v

InitCal ==
    /\ path = "cal" /\ mappings = MappingSplit
    /\ StateInit
    /\ DemoIdle
    /\ Int16Idle
    /\ vec_input \in { << a, b, c >> : a \in CalX, b \in CalY, c \in CalZ }
    /\ cfg_deadzone \in Deadzones
    /\ cfg_scale_factor \in ScaleFactors
    /\ cfg_num_axes \in NumAxes
    /\ cal_fn = "none"
    /\ partial_output = << >> /\ final_output = << >> /\ handed = << >>
    /\ div_zero = FALSE
    /\ BatcherIdle

\* LisuProcesses(VecInput, name) with Actuation.x, y, z holding the sample
CalLisuProcesses ==
    /\ path = "cal" /\ cal_fn = "none"
    /\ \E VecInputM \in { << -1 * vec_input[1], vec_input[2], vec_input[3] >> } :
       \E V \in { normaliseValue(vec_input[1], vec_input[2], vec_input[3], cfg_deadzone) } :
       \E r \in { LisuProcesses(V, count_state, TRUE) } :
          /\ x' = vec_input[1] /\ y' = vec_input[2] /\ z' = vec_input[3]
          /\ partial_output' = IF NormBelow(VecInputM, cfg_deadzone) THEN << >>
                               ELSE dzScaledRadial(VecInputM, cfg_deadzone)
          /\ final_output' = dzCalibration(VecInputM, cfg_deadzone)
          /\ handed' = IF AnyNonZero(V) THEN V ELSE << >>
          /\ div_zero' = DivZero(VecInputM, cfg_deadzone)
          /\ count_state' = r.count
    /\ cal_fn' = "LisuProcesses"
    /\ UNCHANGED << path, demoVars, idx, idx2, ctl, keepRunning, hidVars, obsVars, int16Vars,
                    batcherVars,
                    vec_input, cfg_deadzone, cfg_scale_factor, cfg_num_axes >>

\* Actuation.process_input(vec_input, dev_name) of demo/.  _send_command
\* starts with self.config.count_state += 1, and ActuationConfig has no
\* attribute count_state: the AttributeError leaves process_input.
CalProcessInput ==
    /\ path = "cal" /\ cal_fn = "none"
    /\ \E v \in { process_input(vec_input, cfg_num_axes, cfg_deadzone, cfg_scale_factor) } :
          /\ partial_output' = IF cfg_num_axes >= 3
                               THEN _dz_calibration(vec_input, cfg_deadzone)
                               ELSE << >>
          /\ final_output' = v
          /\ handed' = IF AnyNonZero(v) THEN v ELSE << >>
          /\ err' = IF AnyNonZero(v) THEN "attribute" ELSE "none"
    /\ div_zero' = /\ cfg_num_axes >= 3
                   /\ ~NormBelow(vec_input, cfg_deadzone)
                   /\ (Norm(vec_input) = 0 \/ FP - cfg_deadzone = 0)
    /\ cal_fn' = "process_input"
    /\ UNCHANGED << path, demoVars, gamepadVars, hidVars, int16Vars, batcherVars,
                    wire, samples, held, report, button_called, seen,
                    vec_input, cfg_deadzone, cfg_scale_factor, cfg_num_axes >>

NextCal == CalLisuProcesses \/ CalProcessInput

SpecCal == InitCal /\ [][NextCal]_vars

(***************************************************************************)
(* EventBatcher  (demo/src/LISU/optimisation.py:198-251), called from the  *)
(* threads of Threads.  _lock is a threading.Lock: it is not reentrant.    *)
(***************************************************************************)
BatchSizes == { 2, 3 }
MaxDelay == 3
EventIds == { 1, 2 }

InitBatcher ==
    /\ path = "batcher" /\ mappings = MappingSplit
    /\ StateInit
    /\ DemoIdle
    /\ Int16Idle
    /\ CalIdle
    /\ events = << >>
    /\ last_process_time = 0 /\ now = 0
    /\ batch_size \in BatchSizes /\ max_delay = MaxDelay
    /\ lock_owner = 0
    /\ pc = [t \in Threads |-> "idle"]
    /\ ret = [t \in Threads |-> RetNone]

\* add(event), from taking the lock to its return or to its call of
\* process_batch, which it makes with the lock still held
add(t) ==
    /\ path = "batcher"
    /\ pc[t] = "idle" /\ lock_owner = 0
    /\ \E event \in EventIds :
          /\ events' = Append(events, event)
          /\ IF \/ Len(events') >= batch_size
                \/ now - last_process_time >= max_delay
             THEN /\ lock_owner' = t
                  /\ pc' = [pc EXCEPT ![t] = "process_batch"]
                  /\ ret' = ret
             ELSE /\ lock_owner' = 0
                  /\ pc' = pc
                  /\ ret' = [ret EXCEPT ![t] = RetNone]
    /\ UNCHANGED << path, demoVars, gamepadVars, hidVars, obsVars, int16Vars, calVars,
                    last_process_time, batch_size, max_delay, now >>

\* process_batch(), called directly or from add: it waits for the lock
process_batch(t) ==
    /\ path = "batcher"
    /\ pc[t] \in { "idle", "process_batch" } /\ lock_owner = 0
    /\ events' = << >>
    /\ last_process_time' = now
    /\ ret' = [ret EXCEPT ![t] = RetBatch(events)]
    /\ pc' = [pc EXCEPT ![t] = "idle"]
    /\ UNCHANGED << path, demoVars, gamepadVars, hidVars, obsVars, int16Vars, calVars,
                    batch_size, max_delay, lock_owner, now >>

\* clear()
clear(t) ==
    /\ path = "batcher"
    /\ pc[t] = "idle" /\ lock_owner = 0
    /\ events' = << >>
    /\ last_process_time' = now
    /\ ret' = [ret EXCEPT ![t] = RetNone]
    /\ UNCHANGED << path, demoVars, gamepadVars, hidVars, obsVars, int16Vars, calVars,
                    batch_size, max_delay, lock_owner, now, pc >>

\* time passes
Tick ==
    /\ path = "batcher"
    /\ now < MaxTime
    /\ now' = now + 1
    /\ UNCHANGED << path, demoVars, gamepadVars, hidVars, obsVars, int16Vars, calVars,
                    events, last_process_time, batch_size, max_delay, lock_owner, pc, ret >>

NextBatcher ==
    \/ \E t \in Threads : add(t)
    \/ \E t \in Threads : process_batch(t)
    \/ \E t \in Threads : clear(t)
    \/ Tick

SpecBatcher == InitBatcher /\ [][NextBatcher]_vars

(***************************************************************************)
(* Properties.                                                             *)
(***************************************************************************)
HasSample == Len(samples) >= 1
Last == samples[Len(samples)]
TwoSamples == Len(samples) = 2

\* the counters of the pipeline this worker runs
Count         == IF path = "gamepad" THEN count_state ELSE l_count_state
TemplateIndex == IF path = "gamepad" THEN idx ELSE l_idx2
Sensitivity   == IF path = "gamepad" THEN idx2 ELSE l_idx3
Alive         == IF path = "gamepad" THEN keepRunning ELSE hid_alive

RisingEdge(b) == held[b] = 0 /\ held'[b] = 1

\* the progression the sensitivity index is specified to follow
SensNext(s) == IF s = 1 THEN 5 ELSE IF s = 5 THEN 10 ELSE IF s = 10 THEN 15
               ELSE IF s = 15 THEN 20 ELSE 1

---------------------------------------------------------------------------
---------------------------------------------------------------------------
\* C2: the action of the mode button (template cycle) and of the
\* sensitivity button (sensitivity step) fires on a step exactly when that
\* button goes from released to pressed; while it stays pressed, or is
\* released, nothing fires.
C2_Debounce ==
    [][ /\ (TemplateIndex' # TemplateIndex) <=> RisingEdge(1)
        /\ (Sensitivity' # Sensitivity) <=> RisingEdge(2) ]_vars

---------------------------------------------------------------------------
\* C3: the template index (0 initially) steps to (index + 1) mod
\* template_count on every rising edge of the mode button and is left alone
\* by every other step, so that after k rising edges it is k mod
\* template_count.
C3_ModeCycling ==
    [][ TemplateIndex' = IF RisingEdge(1)
                         THEN (TemplateIndex + 1) % TemplateCount
                         ELSE TemplateIndex ]_vars

---------------------------------------------------------------------------
\* C4: the sensitivity index (1 initially) moves 1 -> 5 -> 10 -> 15 -> 20 -> 1
\* on every rising edge of the sensitivity button and is left alone by every
\* other step.
C4_SensitivityProgression ==
    [][ Sensitivity' = IF RisingEdge(2) THEN SensNext(Sensitivity)
                       ELSE Sensitivity ]_vars

---------------------------------------------------------------------------
---------------------------------------------------------------------------
\* C6: a sample whose datagram send fails does not raise out of the
\* dispatching call.
C6_SendFailureContained ==
    (HasSample /\ Last.sent /\ ~Last.ok) => err = "none"

---------------------------------------------------------------------------
\* C7: after a failed send the counter is where a successful send leaves it
\* (0) and the pipeline goes on processing samples.
C7_ContinuesAfterFailure ==
    (HasSample /\ Last.sent /\ ~Last.ok) => (Count = 0 /\ Alive)

---------------------------------------------------------------------------
\* the axes a report addresses: channel equal to data[0], both bytes inside
Addressed(name) ==
    /\ Len(report) > 0
    /\ mappings.axes[name].channel = Byte(report, 0)
    /\ mappings.axes[name].byte1 < Len(report)
    /\ mappings.axes[name].byte2 < Len(report)

RawOf(name) == to_int16(Byte(report, mappings.axes[name].byte1),
                        Byte(report, mappings.axes[name].byte2))

---------------------------------------------------------------------------
\* C9: for every byte pair, to_int16 lies in -32768..32767, is non-negative
\* exactly when b1 + 256 * b2 < 32768, and its little-endian two's-complement
\* encoding is the byte pair again.
C9_Int16RoundTrip ==
    enc # << >> =>
        /\ dec \in -32768..32767
        /\ (dec >= 0) <=> (b1 + 256 * b2 < 32768)
        /\ enc = << b1, b2 >>

C9_Witness == enc # << >> /\ b1 = 0 /\ b2 = 128 /\ dec = -32768

---------------------------------------------------------------------------
\* C10: a step that processes a report of channel c leaves every axis and
\* every button mapped to another channel exactly as it was.
C10_IncrementalDecode ==
    [][ report' # << >> =>
            /\ \A name \in AxisNames :
                  mappings.axes[name].channel # Byte(report', 0)
                      => dict_state'[name] = dict_state[name]
            /\ \A i \in 1..Len(mappings.buttons) :
                  mappings.buttons[i].channel # Byte(report', 0)
                      => dict_state'.buttons[i] = dict_state.buttons[i] ]_vars

C10_Witness ==
    /\ Len(report) > 0 /\ Byte(report, 0) = 1
    /\ dict_state.x # 0
    /\ dict_state.pitch # 0 /\ mappings.axes.pitch.channel = 2
    /\ dict_state.buttons[2] = 1

---------------------------------------------------------------------------
\* C11: decoding absorbs malformed reports: no report, be it empty or
\* shorter than the byte offset of an axis or button it addresses, makes
\* process raise; the IndexError of a read outside the report never leaves
\* the call.
C11_MalformedAbsorbed == err # "index"

---------------------------------------------------------------------------
\* the sample was calibrated: LisuProcesses always calibrates, process_input
\* of demo/ only for a device of three axes or more
Calibrated == cal_fn = "LisuProcesses" \/ (cal_fn = "process_input" /\ cfg_num_axes >= 3)

\* what the calibration function returned: dzCalibration, _dz_calibration
Returned == IF cal_fn = "LisuProcesses" THEN final_output ELSE partial_output

\* the Euclidean magnitude of the sample is strictly below the deadzone
MagnitudeBelowDeadzone ==
    /\ cfg_deadzone > 0
    /\ vec_input[1] * vec_input[1] + vec_input[2] * vec_input[2]
          + vec_input[3] * vec_input[3] < cfg_deadzone * cfg_deadzone

\* C12: a calibrated sample whose magnitude is strictly less than the
\* configured deadzone comes out of the calibration as the zero vector, and
\* nothing is handed to dispatch for it.
C12_DeadzoneZeroing ==
    (Calibrated /\ MagnitudeBelowDeadzone) => (Returned = Zero3 /\ handed = << >>)

C12_Witness ==
    /\ cal_fn = "LisuProcesses"
    /\ vec_input = << 2000, -2000, 0 >> /\ cfg_deadzone = 3000
    /\ final_output = Zero3 /\ handed = << >>

---------------------------------------------------------------------------
InUnitRange(v) == ~IsNaN(v) /\ -FP <= v /\ v <= FP

\* C13: for every input and every calibration setting (deadzone, scale
\* factor, number of axes of the device), every component of the vector
\* handed to dispatch lies in [-1.0, 1.0].
C13_ClampTotality ==
    handed # << >> => \A i \in 1..3 : InUnitRange(handed[i])

---------------------------------------------------------------------------
\* C14: under every valid configuration (deadzone in [0, 1), deadzone = 0
\* included) no division of the calibration has a divisor of 0, and the
\* zero vector is calibrated to the zero vector.
C14_ZeroInputSafe ==
    (Calibrated /\ 0 <= cfg_deadzone /\ cfg_deadzone < FP)
        => /\ ~div_zero
           /\ vec_input = Zero3 => Returned = Zero3

---------------------------------------------------------------------------
\* C15: each component of the output of the sloped axial stage is the
\* component v_i of the output of the radial stage, gated and remapped with
\* the deadzone deadzone * |v_i| of that same component.
C15_AxialPerComponent ==
    (cal_fn = "LisuProcesses" /\ partial_output # << >>)
        => \A i \in 1..3 :
              final_output[i] =
                  AxialComponent(partial_output[i],
                                 XMul(cfg_deadzone, XAbs(partial_output[i]), FP))

---------------------------------------------------------------------------
\* C18: no sample is calibrated under a configuration whose deadzone is 1
\* or more: such a configuration does not get past the start of the session.
C18_InvalidConfigRejected ==
    (cal_fn = "process_input" /\ cfg_num_axes >= 3) => cfg_deadzone < FP

---------------------------------------------------------------------------
\* the translational vector of the 3D device after its thresholds
\* (0.3 for x, 0.2 for y and z)
Translational(st) ==
    << IF Exceeds(st.x, 3) THEN st.x ELSE 0,
       IF Exceeds(st.y, 2) THEN st.y ELSE 0,
       IF Exceeds(st.z, 2) THEN st.z ELSE 0 >>

\* the command the sign convention prescribes for the vector v
SignConvention(template, v, sens) == << template, -1 * v[1], -1 * v[2], v[3], sens >>

\* C16: every command emitted by a sample carries, in order, the negated x,
\* the negated y and the unchanged z component of the calibrated
\* translational vector of that sample, and then the sensitivity index in
\* force when the command is formatted.
C16_WireSignConvention ==
    [][ (samples' # samples /\ wire' # << >>) =>
            wire' = IF path = "gamepad"
                    THEN SignConvention(fun_array[idx' + 1],
                                        normaliseValue(x', y', z', DEADZONE), idx2')
                    ELSE SignConvention(fun_array[l_idx2 + 1],
                                        Translational(tuple_state'), l_idx3) ]_vars

---------------------------------------------------------------------------
\* C17: in every reachable state the command template index of the gamepad
\* path and of the 3D-device path is a valid index of the template list:
\* 0 <= index < number of templates.
C17_TemplateIndexValid ==
    /\ 0 <= idx /\ idx < TemplateCount
    /\ 0 <= l_idx2 /\ l_idx2 < TemplateCount

C17_Witness ==
    /\ path = "hid" /\ l_idx2 = 1
    /\ HasSample /\ Last.sent /\ Last.ok
    /\ wire # << >> /\ wire[1] = fun_array[2]

---------------------------------------------------------------------------
\* C19: whenever the device is not open (before it was opened, and after
\* the session closed it) DeviceSpec.read and the module-level read both
\* return None; while it is open both return the state tuple.
C19_ReadNoneWhenClosed ==
    path = "hid" =>
        IF device = "open"
        THEN DeviceSpec_read = << tuple_state >> /\ read = << tuple_state >>
        ELSE DeviceSpec_read = << >> /\ read = << >>

---------------------------------------------------------------------------
\* C20: every call of add returns: no thread is ever left inside add
\* waiting for the batcher's lock while it is itself the holder of that
\* lock (a wait that cannot end).
C20_AddReturns ==
    \A t \in Threads : ~(pc[t] = "process_batch" /\ lock_owner = t)

(***************************************************************************)
(* C25  DeviceSpec.process invokes button_callback only for reports in     *)
(* which at least one button bit differs from the button state held        *)
(* before the report: a call of process that invokes button_callback has   *)
(* changed the button vector.                                              *)
(***************************************************************************)
C25_ButtonCallbackOnChange ==
    [][ (path = "hid" /\ l_count_state' # l_count_state /\ button_called')
            => held' # held ]_vars

\* the axis channels of a mapping
AxisChannels(m) == { m.axes[name].channel : name \in AxisNames }

(***************************************************************************)
(* C26  tuple_state is published only after reports for all six degrees    *)
(* of freedom have been received: while some axis channel of the mapping   *)
(* has not been seen, tuple_state keeps its initial value.                 *)
(***************************************************************************)
C26_PublishAfterAllAxes ==
    (path = "hid" /\ ~(AxisChannels(mappings) \subseteq seen))
        => tuple_state = TupleOf(DictInit)

(***************************************************************************)
(* C27  Each of the six axis values held in the device state lies in       *)
(* [-1.0, 1.0] (numerators within [-AXIS_SCALE, AXIS_SCALE]), for every    *)
(* signed 16-bit raw value and every scale of the catalog.                 *)
(***************************************************************************)
C27_AxisRange ==
    path = "hid" =>
        \A name \in AxisNames :
            -AXIS_SCALE <= dict_state[name] /\ dict_state[name] <= AXIS_SCALE

\* the step reads a movement sample: a poll whose calibrated vector is not
\* zero, or a report on a channel that carries an axis
MovementSample ==
    IF path = "gamepad"
    THEN Len(samples') >= 1 /\ samples'[Len(samples')].nz
    ELSE report' # << >> /\ AxisChannel(mappings, report') # { }

(***************************************************************************)
(* C28  The three dispatch counters are independent: a press of the        *)
(* sensitivity button leaves the template index unchanged, a press of the  *)
(* mode button leaves the sensitivity index unchanged, a press that comes  *)
(* without a movement sample leaves the parity counter unchanged, and a    *)
(* step without a press leaves the template index and the sensitivity      *)
(* index unchanged, whichever other button is held.                        *)
(***************************************************************************)
C28_CountersIndependent ==
    [][ /\ (RisingEdge(2) /\ ~RisingEdge(1)) => TemplateIndex' = TemplateIndex
        /\ (RisingEdge(1) /\ ~RisingEdge(2)) => Sensitivity' = Sensitivity
        /\ ((RisingEdge(1) \/ RisingEdge(2)) /\ ~MovementSample) => Count' = Count
        /\ (~RisingEdge(1) /\ ~RisingEdge(2))
              => (TemplateIndex' = TemplateIndex /\ Sensitivity' = Sensitivity)
      ]_vars

(***************************************************************************)
(* Specification of OptimisedState (path "state") and of                   *)
(* TransformationCache (path "cache").                                     *)
(***************************************************************************)
InitOpt ==
    /\ path \in { "state", "cache" }
    /\ CoreIdle
    /\ NotOptIdle
    /\ caller_state \in Dicts /\ current_is_caller = FALSE
    /\ current = EmptyDict /\ previous = EmptyDict /\ changed = { }
    /\ given = EmptyDict
    /\ cache = << >> /\ max_size = MaxSize
    /\ op = NoOp

\* the set comprehension of update: the keys of new_state that are not in
\* prev or whose value differs
ChangedKeys(new_state, prev) ==
    { k \in StateKeys : /\ new_state[k] # Absent
                        /\ (prev[k] = Absent \/ new_state[k] # prev[k]) }

\* OptimisedState.update(new_state): cur is what self.current holds when
\* the call is made; the argument itself is kept as self.current
OptimisedState_update(cur, new_state, same_object) ==
    [ previous |-> cur, current |-> new_state, current_is_caller |-> same_object,
      changed |-> ChangedKeys(new_state, cur) ]

\* the caller passes a dictionary built for the call
update_fresh ==
    /\ path = "state"
    /\ \E new_state \in Dicts :
        \E u \in { OptimisedState_update(current, new_state, FALSE) } :
          /\ previous' = u.previous /\ current' = u.current
          /\ current_is_caller' = u.current_is_caller
          /\ changed' = u.changed
          /\ given' = new_state
    /\ op' = Call("update")
    /\ UNCHANGED << path, coreVars, notOptVars, caller_state, cache, max_size >>

\* the caller passes the dictionary object it owns
update_same ==
    /\ path = "state"
    /\ \E u \in { OptimisedState_update(current, caller_state, TRUE) } :
          /\ previous' = u.previous /\ current' = u.current
          /\ current_is_caller' = u.current_is_caller
          /\ changed' = u.changed
    /\ given' = caller_state
    /\ op' = Call("update")
    /\ UNCHANGED << path, coreVars, notOptVars, caller_state, cache, max_size >>

\* InputDevice._process_data writes a value into the dictionary it owns;
\* self.current sees the write when it is that object
_process_data ==
    /\ path = "state"
    /\ \E k \in StateKeys, v \in StateValues :
          /\ caller_state[k] # v
          /\ caller_state' = [caller_state EXCEPT ![k] = v]
    /\ current' = IF current_is_caller THEN caller_state' ELSE current
    /\ op' = Call("write")
    /\ UNCHANGED << path, coreVars, notOptVars, current_is_caller, previous, changed, given,
                    cache, max_size >>

\* OptimisedState.clear(): empties the three containers in place
OptimisedState_clear ==
    /\ path = "state"
    /\ current' = EmptyDict /\ previous' = EmptyDict /\ changed' = { }
    /\ caller_state' = IF current_is_caller THEN EmptyDict ELSE caller_state
    /\ given' = EmptyDict
    /\ op' = Call("clear")
    /\ UNCHANGED << path, coreVars, notOptVars, current_is_caller, cache, max_size >>

\* self.cache.get(key): << value >>, or << >> for None
TransformationCache_get(c, key) ==
    IF \E i \in 1..Len(c) : c[i].key = key
    THEN << c[CHOOSE i \in 1..Len(c) : c[i].key = key].value >>
    ELSE << >>

\* set that keeps the value a key already has
TransformationCache_set_keep_mut(c, m, key, value) ==
    LET c1 == IF Len(c) >= m THEN Tail(c) ELSE c
    IN  IF \E i \in 1..Len(c1) : c1[i].key = key
        THEN c1
        ELSE Append(c1, [key |-> key, value |-> value])

\* TransformationCache.set: a full cache drops its first-inserted entry,
\* then the key is written (in place when the cache holds it)
TransformationCache_set(c, m, key, value) ==
    LET c1 == IF Len(c) >= m THEN Tail(c) ELSE c
    IN  IF \E i \in 1..Len(c1) : c1[i].key = key
        THEN [i \in 1..Len(c1) |->
                 IF c1[i].key = key THEN [key |-> key, value |-> value] ELSE c1[i]]
        ELSE Append(c1, [key |-> key, value |-> value])

cache_get ==
    /\ path = "cache"
    /\ \E key \in CacheKeys :
          op' = [name |-> "get", key |-> key, value |-> 0,
                 result |-> TransformationCache_get(cache, key), dropped |-> << >>]
    /\ UNCHANGED << path, coreVars, notOptVars, caller_state, current_is_caller, current,
                    previous, changed, given, cache, max_size >>

cache_set ==
    /\ path = "cache"
    /\ \E key \in CacheKeys, value \in CacheValues :
          /\ cache' = TransformationCache_set(cache, max_size, key, value)
          /\ op' = [name |-> "set", key |-> key, value |-> value, result |-> << >>,
                    dropped |-> IF Len(cache) >= max_size
                                THEN << cache[1].key >> ELSE << >>]
    /\ UNCHANGED << path, coreVars, notOptVars, caller_state, current_is_caller, current,
                    previous, changed, given, max_size >>

cache_clear ==
    /\ path = "cache"
    /\ cache' = << >>
    /\ op' = Call("clear")
    /\ UNCHANGED << path, coreVars, notOptVars, caller_state, current_is_caller, current,
                    previous, changed, given, max_size >>

NextOpt ==
    \/ update_fresh \/ update_same \/ _process_data \/ OptimisedState_clear
    \/ cache_get \/ cache_set \/ cache_clear

SpecOpt == InitOpt /\ [][NextOpt]_vars

(***************************************************************************)
(* C21  OptimisedState.update(new_state) returns exactly the keys that are *)
(* new or whose value differs from the state given to the previous update  *)
(* call, whether the caller passes fresh dictionaries or the same          *)
(* dictionary object mutated in place.                                     *)
(***************************************************************************)
C21_UpdateReturnsChanges ==
    [][ (path = "state" /\ op'.name = "update")
            => changed' = ChangedKeys(given', given) ]_vars

(***************************************************************************)
(* C24  TransformationCache lookup: after set(k, v), get(k) returns v and  *)
(* every other key returns what it returned before or None (evicted);      *)
(* get changes nothing and returns the value held; after clear(), get      *)
(* returns None for every key; a key that was never set returns None.      *)
(***************************************************************************)
C24_CacheLookup ==
    [][ path = "cache" =>
          /\ op'.name = "set" =>
                /\ TransformationCache_get(cache', op'.key) = << op'.value >>
                /\ \A k \in CacheKeys \ { op'.key } :
                      TransformationCache_get(cache', k)
                          \in { TransformationCache_get(cache, k), << >> }
          /\ op'.name = "get" =>
                /\ cache' = cache
                /\ op'.result = TransformationCache_get(cache', op'.key)
          /\ op'.name = "clear" =>
                \A k \in CacheKeys : TransformationCache_get(cache', k) = << >>
          /\ op'.name = "none" =>
                \A k \in CacheKeys : TransformationCache_get(cache', k) = << >>
      ]_vars

\* a full cache has dropped its oldest entry for a set of another key: the
\* key set returns its value and the dropped key returns None
C24_Witness ==
    /\ path = "cache" /\ op.name = "set" /\ op.dropped # << >>
    /\ TransformationCache_get(cache, op.key) = << op.value >>
    /\ TransformationCache_get(cache, op.dropped[1]) = << >>

(***************************************************************************)
(* Specification of LisuLogger: one calling thread and the event thread    *)
(* started by the constructor.                                             *)
(***************************************************************************)
InitLog ==
    /\ path = "log"
    /\ CoreIdle
    /\ NotLogIdle
    /\ LogIdle

\* a LIFO queue
Queue_get_lifo_mut(q) ==
    [event |-> q[Len(q)], rest |-> SubSeq(q, 1, Len(q) - 1)]

\* queue.Queue.get() on a queue that is not empty: FIFO
Queue_get(q) == [event |-> Head(q), rest |-> Tail(q)]

\* log_event(event_type, details, level): the event is put on the queue;
\* log_error and log_warning count in metrics before they call it
Log(type) ==
    /\ path = "log" /\ cl_pc = "idle"
    /\ calls.events_processed < MaxEvents
    /\ \E event \in { [type |-> type, n |-> calls.events_processed + 1] } :
          /\ event_queue' = Append(event_queue, event)
          /\ queued' = Append(queued, event)
    /\ calls' = Metrics(calls.events_processed + 1,
                        calls.errors + (IF type = "error" THEN 1 ELSE 0),
                        calls.warnings + (IF type = "warning" THEN 1 ELSE 0))
    /\ metrics' = [metrics EXCEPT
                     !.errors = @ + (IF type = "error" THEN 1 ELSE 0),
                     !.warnings = @ + (IF type = "warning" THEN 1 ELSE 0)]
    /\ last_call' = type
    /\ UNCHANGED << path, coreVars, notLogVars, log_file, thread_alive, w_pc, w_event,
                    cl_pc, got >>

log_event == Log("event")

log_error == Log("error")

log_warning == Log("warning")

\* get_metrics(): returns self.metrics as it is at the call
get_metrics ==
    /\ path = "log" /\ cl_pc # "join"
    /\ got' = metrics
    /\ last_call' = "get_metrics"
    /\ UNCHANGED << path, coreVars, notLogVars, event_queue, log_file, metrics,
                    thread_alive, w_pc, w_event, cl_pc, calls, queued >>

\* _process_events: event = self.event_queue.get(); None ends the loop and
\* the thread
_process_events_get ==
    /\ path = "log" /\ thread_alive /\ w_pc = "get"
    /\ event_queue # << >>
    /\ \E g \in { Queue_get(event_queue) } :
          /\ event_queue' = g.rest
          /\ IF g.event = Shutdown
             THEN /\ thread_alive' = FALSE /\ w_pc' = "exit"
                  /\ w_event' = NoEvent
             ELSE /\ thread_alive' = TRUE /\ w_pc' = "write"
                  /\ w_event' = g.event
    /\ last_call' = "thread"
    /\ UNCHANGED << path, coreVars, notLogVars, log_file, metrics, cl_pc, calls,
                    queued, got >>

\* self._write_event(event): one line appended to the log file
_write_event ==
    /\ path = "log" /\ thread_alive /\ w_pc = "write"
    /\ log_file' = Append(log_file, w_event)
    /\ w_pc' = "count"
    /\ last_call' = "thread"
    /\ UNCHANGED << path, coreVars, notLogVars, event_queue, metrics, thread_alive,
                    w_event, cl_pc, calls, queued, got >>

\* self.metrics["events_processed"] += 1, then task_done and the next turn
_process_events_count ==
    /\ path = "log" /\ thread_alive /\ w_pc = "count"
    /\ metrics' = [metrics EXCEPT !.events_processed = @ + 1]
    /\ w_pc' = "get" /\ w_event' = NoEvent
    /\ last_call' = "thread"
    /\ UNCHANGED << path, coreVars, notLogVars, event_queue, log_file, thread_alive,
                    cl_pc, calls, queued, got >>

\* cleanup(): self.event_queue.put(None)
cleanup_put ==
    /\ path = "log" /\ cl_pc = "idle"
    /\ event_queue' = Append(event_queue, Shutdown)
    /\ cl_pc' = "join"
    /\ last_call' = "cleanup"
    /\ UNCHANGED << path, coreVars, notLogVars, log_file, metrics, thread_alive,
                    w_pc, w_event, calls, queued, got >>

\* cleanup(): self.event_thread.join() returns once the thread has ended
cleanup_join ==
    /\ path = "log" /\ cl_pc = "join" /\ ~thread_alive
    /\ cl_pc' = "done"
    /\ last_call' = "cleanup"
    /\ UNCHANGED << path, coreVars, notLogVars, event_queue, log_file, metrics,
                    thread_alive, w_pc, w_event, calls, queued, got >>

NextLog ==
    \/ log_event \/ log_error \/ log_warning \/ get_metrics
    \/ _process_events_get \/ _write_event \/ _process_events_count
    \/ cleanup_put \/ cleanup_join

SpecLog == InitLog /\ [][NextLog]_vars

\* a thread that can run is eventually run
SpecLogFair ==
    /\ SpecLog
    /\ WF_vars(_process_events_get) /\ WF_vars(_write_event)
    /\ WF_vars(_process_events_count) /\ WF_vars(cleanup_join)

(***************************************************************************)
(* C22  Logger metrics are exact: what get_metrics() returns after N calls *)
(* of log_event, log_error and log_warning, E of them log_error and W      *)
(* log_warning, has events_processed = N, errors = E and warnings = W.     *)
(***************************************************************************)
C22_MetricsExact ==
    (path = "log" /\ last_call = "get_metrics") => got = calls

InitStop ==
    /\ path = "stop"
    /\ CoreIdle
    /\ NotStopIdle
    /\ library \in { "pygame", "pywinusb" }
    /\ dev_running = "set" /\ dev_device = "None" /\ _last_state = 0
    /\ mgr_running = TRUE
    /\ main_pc = "start" /\ kb_pc = "poll"
    /\ key_pending = << >>
    /\ stop_requested = FALSE

Monitoring == main_pc \in { "pygame_loop", "esc_loop" }

\* InputDevice.stop_monitoring(): self.running.clear() raises
\* AttributeError when running is a bool; the except clause logs and
\* re-raises, and the device is not closed
stop_monitoring(running, dev) ==
    IF running = "True"
    THEN [running |-> running, device |-> dev, raised |-> TRUE]
    ELSE [running |-> "clear",
          device |-> IF dev = "open" THEN "closed" ELSE dev,
          raised |-> FALSE]

\* device.start_monitoring() of configure_and_run: _start_pywinusb_monitoring
\* opens the device, replaces running by True and returns;
\* _start_pygame_monitoring enters its polling loop in the calling thread
start_monitoring ==
    /\ path = "stop" /\ main_pc = "start"
    /\ IF library = "pywinusb"
       THEN /\ dev_device' = "open" /\ dev_running' = "True"
            /\ main_pc' = "esc_loop"
       ELSE /\ main_pc' = "pygame_loop"
            /\ UNCHANGED << dev_device, dev_running >>
    /\ UNCHANGED << path, coreVars, notStopVars, library, _last_state, mgr_running,
                    kb_pc, key_pending, stop_requested >>

\* one turn of 'while self.running.is_set()' in _start_pygame_monitoring:
\* the joystick state is read and kept when it changed; the callbacks
\* contain their exceptions
_start_pygame_monitoring ==
    /\ path = "stop" /\ main_pc = "pygame_loop"
    /\ IF dev_running = "set"
       THEN /\ \E state \in JoyStates : _last_state' = state
            /\ main_pc' = main_pc
       ELSE /\ main_pc' = "esc_loop"
            /\ _last_state' = _last_state
    /\ UNCHANGED << path, coreVars, notStopVars, library, dev_running, dev_device,
                    mgr_running, kb_pc, key_pending, stop_requested >>

\* the user presses a key while a device is monitored
PressKey ==
    /\ path = "stop" /\ Monitoring
    /\ Len(key_pending) < MaxKeys
    /\ \E key \in Keys :
          /\ key_pending' = Append(key_pending, key)
          /\ stop_requested' = (stop_requested \/ key = "esc")
    /\ UNCHANGED << path, coreVars, notStopVars, library, dev_running, dev_device,
                    _last_state, mgr_running, main_pc, kb_pc >>

\* one turn of _monitor_keyboard: it takes a waiting key; on ESC it calls
\* LisuManager.stop(), which clears LisuManager.running, cleans up and
\* calls sys.exit(0); SystemExit ends the keyboard thread only
_monitor_keyboard ==
    /\ path = "stop" /\ kb_pc = "poll"
    /\ main_pc \in { "start", "pygame_loop", "esc_loop", "except", "finally" }
    /\ IF ~mgr_running
       THEN /\ kb_pc' = "exited"
            /\ UNCHANGED << key_pending, mgr_running >>
       ELSE /\ key_pending # << >>
            /\ key_pending' = Tail(key_pending)
            /\ mgr_running' = (Head(key_pending) # "esc")
            /\ kb_pc' = IF Head(key_pending) = "esc" THEN "exited" ELSE "poll"
    /\ UNCHANGED << path, coreVars, notStopVars, library, dev_running, dev_device,
                    _last_state, main_pc, stop_requested >>

\* the ESC loop of configure_and_run (lines 889-900): it takes a waiting
\* key; on ESC it calls device.stop_monitoring() and breaks; an exception
\* goes to the except clause
configure_and_run ==
    /\ path = "stop" /\ main_pc = "esc_loop"
    /\ key_pending # << >>
    /\ key_pending' = Tail(key_pending)
    /\ IF Head(key_pending) = "esc"
       THEN \E r \in { stop_monitoring(dev_running, dev_device) } :
              /\ dev_running' = r.running /\ dev_device' = r.device
              /\ main_pc' = IF r.raised THEN "except" ELSE "finally"
       ELSE UNCHANGED << dev_running, dev_device, main_pc >>
    /\ UNCHANGED << path, coreVars, notStopVars, library, _last_state, mgr_running,
                    kb_pc, stop_requested >>

\* the finally clause of configure_and_run (lines 909-914) calls
\* device.stop_monitoring() again
configure_and_run_finally ==
    /\ path = "stop" /\ main_pc \in { "except", "finally" }
    /\ \E r \in { stop_monitoring(dev_running, dev_device) } :
          /\ dev_running' = r.running /\ dev_device' = r.device
          /\ main_pc' = IF r.raised THEN "raised" ELSE "returned"
    /\ UNCHANGED << path, coreVars, notStopVars, library, _last_state, mgr_running,
                    kb_pc, key_pending, stop_requested >>

\* Ctrl+C: signal_handler runs stop() in the main thread; SystemExit
\* unwinds the main thread through the finally clause of configure_and_run
signal_handler ==
    /\ path = "stop" /\ Monitoring
    /\ mgr_running' = FALSE
    /\ stop_requested' = TRUE
    /\ \E r \in { stop_monitoring(dev_running, dev_device) } :
          /\ dev_running' = r.running /\ dev_device' = r.device
          /\ main_pc' = IF r.raised THEN "raised" ELSE "exited"
    /\ UNCHANGED << path, coreVars, notStopVars, library, _last_state, kb_pc,
                    key_pending >>

NextStop ==
    \/ start_monitoring \/ _start_pygame_monitoring \/ PressKey
    \/ _monitor_keyboard \/ configure_and_run \/ configure_and_run_finally
    \/ signal_handler

SpecStop == InitStop /\ [][NextStop]_vars

\* the main thread and the keyboard thread are scheduled fairly; the user
\* is not
SpecStopFair ==
    /\ SpecStop
    /\ WF_vars(start_monitoring) /\ WF_vars(_start_pygame_monitoring)
    /\ WF_vars(_monitor_keyboard)
    /\ WF_vars(configure_and_run) /\ WF_vars(configure_and_run_finally)

\* the pygame polling loop has been left; the HID device has been closed
MonitoringEnded ==
    IF library = "pygame"
    THEN main_pc \notin { "start", "pygame_loop" }
    ELSE dev_device = "closed"

(***************************************************************************)
(* C29  Stop is effective: once ESC is pressed or LisuManager.stop() runs  *)
(* while a device is monitored, monitoring eventually ends (the pygame     *)
(* polling loop exits, the HID device is closed), and stop_monitoring      *)
(* does not raise.                                                         *)
(***************************************************************************)
C29_StopEffective ==
    /\ stop_requested ~> MonitoringEnded
    /\ [](main_pc \notin { "except", "raised" })

(***************************************************************************)
(* Specification of MovementRegistry.                                      *)
(***************************************************************************)
InitReg ==
    /\ path = "registry"
    /\ CoreIdle
    /\ NotRegIdle
    /\ RegIdle

\* the elements of a list
Elems(ms) == { ms[i] : i \in 1..Len(ms) }

\* remove_movement that keeps the patterns
RemovePatterns_keep_mut(patterns, name) == patterns

\* the dictionary comprehension of remove_movement: the patterns that do
\* not list the movement
RemovePatterns(patterns, name) ==
    [p \in PatternNames |->
        IF patterns[p] # << >> /\ name \in Elems(patterns[p][1])
        THEN << >>
        ELSE patterns[p]]

register_movement ==
    /\ path = "registry"
    /\ \E name \in MovementNames :
          /\ available_movements' = available_movements \cup { name }
          /\ reg_op' = RegCall("register_movement", name, << >>, FALSE, { })
    /\ UNCHANGED << path, coreVars, notRegVars, movement_patterns >>

\* register_pattern: ValueError for the first movement that is not
\* registered, before anything is written
register_pattern ==
    /\ path = "registry"
    /\ \E name \in PatternNames, movements \in MovementLists :
          IF \E i \in 1..Len(movements) : movements[i] \notin available_movements
          THEN /\ reg_op' = RegCall("register_pattern", name, movements, TRUE, { })
               /\ UNCHANGED movement_patterns
          ELSE /\ reg_op' = RegCall("register_pattern", name, movements, FALSE, { })
               /\ movement_patterns' = [movement_patterns EXCEPT ![name] = << movements >>]
    /\ UNCHANGED << path, coreVars, notRegVars, available_movements >>

remove_movement ==
    /\ path = "registry"
    /\ \E name \in MovementNames :
          IF name \in available_movements
          THEN /\ available_movements' = available_movements \ { name }
               /\ movement_patterns' = RemovePatterns(movement_patterns, name)
               /\ reg_op' = RegCall("remove_movement", name, << >>, FALSE,
                                    { p \in PatternNames :
                                        movement_patterns'[p] # movement_patterns[p] })
          ELSE /\ reg_op' = RegCall("remove_movement", name, << >>, FALSE, { })
               /\ UNCHANGED << available_movements, movement_patterns >>
    /\ UNCHANGED << path, coreVars, notRegVars >>

remove_pattern ==
    /\ path = "registry"
    /\ \E name \in PatternNames :
          /\ movement_patterns' = [movement_patterns EXCEPT ![name] = << >>]
          /\ reg_op' = RegCall("remove_pattern", name, << >>, FALSE, { })
    /\ UNCHANGED << path, coreVars, notRegVars, available_movements >>

NextReg ==
    register_movement \/ register_pattern \/ remove_movement \/ remove_pattern

SpecReg == InitReg /\ [][NextReg]_vars

(***************************************************************************)
(* C30  MovementRegistry referential integrity: every movement name listed *)
(* in every registered pattern is a registered movement; register_pattern  *)
(* naming an unregistered movement raises ValueError and leaves the        *)
(* registry unchanged.                                                     *)
(***************************************************************************)
C30_ReferentialIntegrity ==
    /\ [](\A p \in PatternNames :
             movement_patterns[p] # << >>
                 => Elems(movement_patterns[p][1]) \subseteq available_movements)
    /\ [][ (/\ reg_op'.name = "register_pattern"
            /\ ~(Elems(reg_op'.movements) \subseteq available_movements))
              => /\ reg_op'.raised
                 /\ available_movements' = available_movements
                 /\ movement_patterns' = movement_patterns ]_vars

\* remove_movement has dropped a pattern that listed the movement while
\* another pattern that lists movements is still registered
C30_Witness ==
    /\ path = "registry"
    /\ reg_op.name = "remove_movement" /\ reg_op.dropped # { }
    /\ \E p \in PatternNames :
          movement_patterns[p] # << >> /\ movement_patterns[p][1] # << >>

====
